---- MODULE Spec2Model ----
(***************************************************************************)
(* Model of the slide normalizer, the safety critic and the create_story,  *)
(* publish_story and ngo_signup handlers of safepath-stories               *)
(* (backend/app/story_generation.py, backend/app/safety_critic.py,         *)
(* backend/app/main.py, backend/app/auth.py).                              *)
(*                                                                         *)
(* Python str values are TLA+ strings; Len, SubSeq and \o act on them      *)
(* character by character.  A Python dict is a record whose DOMAIN is the  *)
(* set of keys present; None and non-dict list entries are tagged records. *)
(***************************************************************************)
EXTENDS Integers, Sequences, FiniteSets, TLC

VARIABLES
    settings,      \* the Settings object of the process
    llm_endpoint,  \* how the review endpoint answers a request
    pc,            \* where the request stands
    critic_in,     \* the slide list handed to apply_safety_critic
    critic_out,    \* what apply_safety_critic returned or raised
    rerun_out,     \* what apply_safety_critic did on its own output
    raw_in,        \* the generator payload and story request handed to the normalizer
    norm_out,      \* what _validate_and_normalize_slides returned or raised
    ollama_calls,  \* the requests sent to the Ollama server, in order
    story,         \* the create_story request: its payload, locals and response
    stories,       \* the rows of the stories table
    slide_rows,    \* the rows of the story_slides table
    publish,       \* the publish_story request: its token, story id and response
    ngo_accounts,  \* the rows of the ngo_accounts table
    signups        \* the ngo_signup requests: payload, position and response

vars == <<settings, llm_endpoint, pc, critic_in, critic_out, rerun_out, raw_in, norm_out,
          ollama_calls, story, stories, slide_rows, publish, ngo_accounts, signups>>

----------------------------------------------------------------------------
(* Python values *)

None == [none |-> TRUE]
List(xs) == [items |-> xs]
IsList(v) == "items" \in DOMAIN v
Get(d, k, default) == IF k \in DOMAIN d THEN d[k] ELSE default

(* decoded JSON, where the type of a value is not known in advance: a str   *)
(* is [str |-> s], a bool [bool |-> b], a number [num |-> n], a list        *)
(* List(xs), null None; a record with none of these tags is an object.      *)
JStr(s) == [str |-> s]
JBool(b) == [bool |-> b]
JNum(n) == [num |-> n]
JsonTags == {"none", "items", "str", "bool", "num"}
IsStr(v) == "str" \in DOMAIN v
IsBool(v) == "bool" \in DOMAIN v
IsObject(v) == DOMAIN v \cap JsonTags = {}
IsDict(v) == IsObject(v)

Min(a, b) == IF a < b THEN a ELSE b

(* a local variable: the value is computed once and named in what follows *)
With(value, Body(_)) == Body(value)

----------------------------------------------------------------------------
(* str methods *)

UpperChars == "ABCDEFGHIJKLMNOPQRSTUVWXYZ"
LowerChars == "abcdefghijklmnopqrstuvwxyz"
Digits == "0123456789"

CharSet(s) == {SubSeq(s, i, i) : i \in 1..Len(s)}

UpperSet == CharSet(UpperChars)
LowerMap == [c \in UpperSet |->
    LET i == CHOOSE i \in 1..Len(UpperChars) : SubSeq(UpperChars, i, i) = c
    IN SubSeq(LowerChars, i, i)]
LowerChar(c) == IF c \in UpperSet THEN LowerMap[c] ELSE c

(* str.lower(), character by character *)
RECURSIVE Lower(_)
Lower(s) ==
    IF Len(s) = 0 THEN ""
    ELSE IF Len(s) = 1 THEN LowerChar(s)
    ELSE LET half == Len(s) \div 2
         IN Lower(SubSeq(s, 1, half)) \o Lower(SubSeq(s, half + 1, Len(s)))

IsSpace(c) == c \in {" ", "\n", "\t"}

RECURSIVE LStrip(_)
LStrip(s) == IF s # "" /\ IsSpace(SubSeq(s, 1, 1)) THEN LStrip(SubSeq(s, 2, Len(s))) ELSE s

RECURSIVE RStrip(_)
RStrip(s) == IF s # "" /\ IsSpace(SubSeq(s, Len(s), Len(s))) THEN RStrip(SubSeq(s, 1, Len(s) - 1)) ELSE s

Strip(s) == LStrip(RStrip(s))

MatchAt(lit, s, i) == i + Len(lit) - 1 <= Len(s) /\ SubSeq(s, i, i + Len(lit) - 1) = lit

(* the positions of s that hold the character c *)
Positions(s, c) == {i \in 1..Len(s) : SubSeq(s, i, i) = c}

(* any(term in text for term in terms): one pass over the text, looking at *)
(* the terms only where one of their first characters stands               *)
AnyTermIn(terms, text) ==
    With({SubSeq(term, 1, 1) : term \in terms}, LAMBDA first_chars :
        \E i \in 1..Len(text) :
            /\ SubSeq(text, i, i) \in first_chars
            /\ \E term \in terms : MatchAt(term, text, i))

----------------------------------------------------------------------------
(* re: the patterns the critic compiles are literal strings *)

(* re.IGNORECASE on a literal: compare the case-folded subject with the     *)
(* case-folded literal.                                                     *)
Fold(s, ignorecase) == IF ignorecase THEN Lower(s) ELSE s

(* A match of a literal starts where its first character stands. Every     *)
(* pattern of the critic starts with the same character (a backslash,      *)
(* which has no case), so its positions in a subject, the anchors, are     *)
(* found once per subject and shared by the searches on it.                *)
MatchAtAnchor(lit, s, i, ignorecase) ==
    /\ i + Len(lit) - 1 <= Len(s)
    /\ Fold(SubSeq(s, i, i + Len(lit) - 1), ignorecase) = Fold(lit, ignorecase)

ReSearch(lit, s, anchors, ignorecase) == \E i \in anchors : MatchAtAnchor(lit, s, i, ignorecase)

SetMin(S) == CHOOSE m \in S : \A x \in S : m <= x

(* pattern.sub: the leftmost match, then the leftmost match that starts    *)
(* after it ends, and so on; the text between matches is kept              *)
RECURSIVE ReSubFrom(_, _, _, _, _)
ReSubFrom(width, repl, s, starts, i) ==
    With({m \in starts : m >= i}, LAMBDA rest :
        IF rest = {} THEN SubSeq(s, i, Len(s))
        ELSE With(SetMin(rest), LAMBDA m :
                SubSeq(s, i, m - 1) \o repl \o ReSubFrom(width, repl, s, starts, m + width)))

ReSub(lit, repl, s, anchors, ignorecase) ==
    ReSubFrom(Len(lit), repl, s, {i \in anchors : MatchAtAnchor(lit, s, i, ignorecase)}, 1)

(* rf"\\b{re.escape(term)}\\b": in a raw string \\ stays two characters,   *)
(* so the regex is  \\ b term \\ b : an escaped backslash, the letter b,   *)
(* the term, an escaped backslash, the letter b. It matches the literal    *)
(* text  \bterm\b  and contains no word-boundary assertion.                *)
TermPattern(term) == "\\b" \o term \o "\\b"
PatternAnchor == SubSeq(TermPattern(""), 1, 1)
Anchors(s) == Positions(s, PatternAnchor)

----------------------------------------------------------------------------
(* safety_critic.py constants *)

UNSAFE_REPLACEMENTS == <<
    <<"kill", "hurt">>,
    <<"killing", "hurting">>,
    <<"dead", "unsafe">>,
    <<"blood", "danger">>,
    <<"weapon", "dangerous object">>,
    <<"gun", "dangerous object">>,
    <<"knife", "sharp object">>,
    <<"abduct", "take away">>,
    <<"kidnap", "take away">>,
    <<"nude", "inappropriate">>,
    <<"sex", "inappropriate">> >>

SCARY_TERMS == {"kidnap", "abduct", "blood", "dead", "die", "weapon", "gun", "knife", "attack", "violence"}

TRUSTED_ADULT_TERMS == {"trusted adult", "teacher", "parent", "mother", "father", "guardian", "caregiver", "police", "counselor"}

CalmActionText == "The child stays calm and chooses a safe action."
SafeReframeText == "A confusing moment happens, but the child remembers safe rules and seeks help."
TrustedAdultSentence == " Then the child tells a trusted adult like a parent or teacher."
DefaultChoiceText == "Choose the safer option."
Ellipsis == "..."

DefaultBranchSlide == [
    position |-> 2,
    text |-> "A risky moment appears. What is the safest choice?",
    choices |-> List(<<
        [id |-> "a", text |-> "Move away and tell a trusted adult.", correct |-> TRUE],
        [id |-> "b", text |-> "Go alone and keep it secret.", correct |-> FALSE] >>) ]

----------------------------------------------------------------------------
(* _sanitize_text *)

RECURSIVE SanitizeFrom(_, _, _, _)
SanitizeFrom(k, updated, anchors, changes) ==
    IF k > Len(UNSAFE_REPLACEMENTS) THEN [text |-> Strip(updated), changes |-> changes]
    ELSE With(UNSAFE_REPLACEMENTS[k][1], LAMBDA bad :
         With(TermPattern(bad), LAMBDA pattern :
            IF ReSearch(pattern, updated, anchors, TRUE)
            THEN With(ReSub(pattern, UNSAFE_REPLACEMENTS[k][2], updated, anchors, TRUE), LAMBDA substituted :
                    SanitizeFrom(k + 1, substituted, Anchors(substituted),
                                 Append(changes, "replaced unsafe term '" \o bad \o "'")))
            ELSE SanitizeFrom(k + 1, updated, anchors, changes)))

_sanitize_text(text) == SanitizeFrom(1, text, Anchors(text), <<>>)

(* _count_scary_terms *)
_count_scary_terms(text) ==
    With(Lower(text), LAMBDA value :
    With(Anchors(value), LAMBDA anchors :
        Cardinality({term \in SCARY_TERMS : ReSearch(TermPattern(term), value, anchors, FALSE)})))

----------------------------------------------------------------------------
(* _has_trusted_adult_reference *)

HasTrustedTerm(text) == AnyTermIn(TRUSTED_ADULT_TERMS, Lower(text))

_has_trusted_adult_reference(slides) ==
    \E i \in 1..Len(slides) :
        \/ HasTrustedTerm(Get(slides[i], "text", ""))
        \/ LET choices == Get(slides[i], "choices", None)
           IN /\ IsList(choices)
              /\ \E j \in 1..Len(choices.items) :
                    /\ IsDict(choices.items[j])
                    /\ HasTrustedTerm(Get(choices.items[j], "text", ""))

----------------------------------------------------------------------------
(* _coerce_two_choice_branch *)

DefaultId(index) == IF index = 0 THEN "a" ELSE "b"

(* x.get(key) or default, for str values *)
GetOr(d, k, default) == IF k \in DOMAIN d /\ d[k] # "" THEN d[k] ELSE default

(* a dict choice is updated in place: its other keys stay *)
CoerceChoice(index, choice) ==
    IF ~IsDict(choice)
    THEN [id |-> DefaultId(index), text |-> DefaultChoiceText, correct |-> (index = 0)]
    ELSE [k \in DOMAIN choice \cup {"id", "text", "correct"} |->
            CASE k = "id" -> GetOr(choice, "id", DefaultId(index))
              [] k = "text" -> Strip(GetOr(choice, "text", DefaultChoiceText))
              [] k = "correct" -> Get(choice, "correct", index = 0)
              [] OTHER -> choice[k]]

(* mutant: the equal flags are left as they are *)
ForceOneCorrect_Skip(first_two) == first_two

ForceOneCorrect(first_two) ==
    IF first_two[1].correct = first_two[2].correct
    THEN << [first_two[1] EXCEPT !.correct = TRUE], [first_two[2] EXCEPT !.correct = FALSE] >>
    ELSE first_two

HasTwoChoices(slide) ==
    LET choices == Get(slide, "choices", None)
    IN IsList(choices) /\ Len(choices.items) >= 2

InsertAt(seq, k, x) == SubSeq(seq, 1, k) \o <<x>> \o SubSeq(seq, k + 1, Len(seq))

(* mutant: no return after the coerced slide, the default slide is inserted too *)
Coerce_NoReturn(slides) ==
    LET coerced ==
            IF \E i \in 1..Len(slides) : HasTwoChoices(slides[i])
            THEN LET i == CHOOSE i \in 1..Len(slides) :
                            HasTwoChoices(slides[i]) /\ \A j \in 1..(i - 1) : ~HasTwoChoices(slides[j])
                     choices == slides[i].choices.items
                     first_two == << CoerceChoice(0, choices[1]), CoerceChoice(1, choices[2]) >>
                 IN [slides EXCEPT ![i].choices = List(ForceOneCorrect(first_two))]
            ELSE slides
    IN InsertAt(coerced, Min(1, Len(coerced)), DefaultBranchSlide)

_coerce_two_choice_branch(slides) ==
    IF \E i \in 1..Len(slides) : HasTwoChoices(slides[i])
    THEN LET i == CHOOSE i \in 1..Len(slides) :
                    HasTwoChoices(slides[i]) /\ \A j \in 1..(i - 1) : ~HasTwoChoices(slides[j])
             choices == slides[i].choices.items
             first_two == << CoerceChoice(0, choices[1]), CoerceChoice(1, choices[2]) >>
         IN [slides EXCEPT ![i].choices = List(ForceOneCorrect(first_two))]
    ELSE InsertAt(slides, Min(1, Len(slides)), DefaultBranchSlide)

----------------------------------------------------------------------------
(* _run_optional_llm_review: the request's outcome is the environment's *)

ReviewOutcomes == {"unreachable", "timeout", "body_not_json", "body_not_object",
                   "response_missing", "response_not_string", "embedded_not_json",
                   "embedded_not_object", "approved", "rejected"}

UnavailableVerdict == [approved |-> FALSE, risk_flags |-> <<"llm_review_unavailable">>, notes |-> "LLM review unavailable"]
InvalidVerdict == [approved |-> FALSE, risk_flags |-> <<"llm_review_invalid">>, notes |-> "Invalid LLM review payload"]
ParsedVerdict(approved) == [approved |-> approved, risk_flags |-> <<>>, notes |-> "reviewed"]
EmptyObject == [x \in {} |-> TRUE]

(* requests counts the urlopen calls made *)
_run_optional_llm_review(st, outcome) ==
    IF ~st.safety_critic_enable_llm_review THEN [raised |-> "", value |-> None, requests |-> 0]
    ELSE CASE outcome \in {"unreachable", "timeout", "body_not_json", "embedded_not_json"} ->
                [raised |-> "", value |-> UnavailableVerdict, requests |-> 1]
           [] outcome = "body_not_object" -> [raised |-> "AttributeError", requests |-> 1]
           [] outcome = "response_not_string" -> [raised |-> "TypeError", requests |-> 1]
           [] outcome = "response_missing" -> [raised |-> "", value |-> EmptyObject, requests |-> 1]
           [] outcome = "embedded_not_object" -> [raised |-> "", value |-> InvalidVerdict, requests |-> 1]
           [] outcome = "approved" -> [raised |-> "", value |-> ParsedVerdict(TRUE), requests |-> 1]
           [] outcome = "rejected" -> [raised |-> "", value |-> ParsedVerdict(FALSE), requests |-> 1]

----------------------------------------------------------------------------
(* apply_safety_critic *)

SlideLabel(index) == "slide_" \o ToString(index + 1)

Prefixed(label, changes) == [k \in 1..Len(changes) |-> label \o ": " \o changes[k]]

(* mutant: the text is not stripped before the blank test *)
IsBlank_NoStrip(slide) == Get(slide, "text", "") = ""

IsBlank(slide) == Strip(Get(slide, "text", "")) = ""

(* sanitized_text[:max].rstrip() + "..." *)
Truncate(text, max) == RStrip(SubSeq(text, 1, Min(max, Len(text)))) \o Ellipsis

(* the loop body's text part: text and the issues it appends, in order *)
FixText(st, index, slide) ==
    With(Strip(Get(slide, "text", "")), LAMBDA stripped :
    With(stripped = "", LAMBDA filled :
    With(_sanitize_text(IF filled THEN CalmActionText ELSE stripped), LAMBDA san :
    With(_count_scary_terms(san.text) > st.safety_critic_max_scary_terms_per_slide, LAMBDA scary :
    With(IF scary THEN SafeReframeText ELSE san.text, LAMBDA softened :
    With(Len(softened) > st.safety_critic_max_text_length, LAMBDA long :
        [text |-> IF long THEN Truncate(softened, st.safety_critic_max_text_length) ELSE softened,
         issues |-> (IF filled THEN <<SlideLabel(index) \o ": filled missing text">> ELSE <<>>)
                    \o Prefixed(SlideLabel(index), san.changes)
                    \o (IF scary THEN <<SlideLabel(index) \o ": tone too intense, softened">> ELSE <<>>)
                    \o (IF long THEN <<SlideLabel(index) \o ": trimmed long text">> ELSE <<>>)]))))))

(* the loop over raw_choices[:2]; choice_idx counts list entries, dicts or not *)
RECURSIVE CleanChoices(_, _, _, _, _)
CleanChoices(index, raw, choice_idx, cleaned, issues) ==
    IF choice_idx >= Min(2, Len(raw)) THEN [cleaned |-> cleaned, issues |-> issues]
    ELSE With(raw[choice_idx + 1], LAMBDA choice :
            IF ~IsDict(choice) THEN CleanChoices(index, raw, choice_idx + 1, cleaned, issues)
            ELSE With(_sanitize_text(Get(choice, "text", "")), LAMBDA san :
                    CleanChoices(index, raw, choice_idx + 1,
                        Append(cleaned,
                               [id |-> GetOr(choice, "id", DefaultId(choice_idx)),
                                text |-> IF san.text # "" THEN san.text ELSE DefaultChoiceText,
                                correct |-> Get(choice, "correct", choice_idx = 0)]),
                        issues \o Prefixed(SlideLabel(index) \o "_choice_" \o ToString(choice_idx + 1),
                                           san.changes))))

FixSlide(st, index, slide) ==
    With(FixText(st, index, slide), LAMBDA t :
    With(Get(slide, "choices", None), LAMBDA raw_choices :
        IF IsList(raw_choices)
        THEN With(CleanChoices(index, raw_choices.items, 0, <<>>, <<>>), LAMBDA c :
                [slide |-> [position |-> index + 1, text |-> t.text,
                            choices |-> IF c.cleaned # <<>> THEN List(c.cleaned) ELSE None],
                 issues |-> t.issues \o c.issues])
        ELSE [slide |-> [position |-> index + 1, text |-> t.text, choices |-> raw_choices],
              issues |-> t.issues]))

(* for index, slide in enumerate(slides); entered only when no slide raises *)
RECURSIVE FixLoop(_, _, _, _, _)
FixLoop(st, slides, index, fixed_slides, issues) ==
    IF index >= Len(slides) THEN [fixed_slides |-> fixed_slides, issues |-> issues]
    ELSE With(FixSlide(st, index, slides[index + 1]), LAMBDA f :
            FixLoop(st, slides, index + 1, Append(fixed_slides, f.slide), issues \o f.issues))

(* mutant: positions are left as the loop and the insertion set them *)
Resequence_Skip(slides) == slides

Resequence(slides) == [idx \in 1..Len(slides) |-> [slides[idx] EXCEPT !.position = idx]]

(* mutant: the sentence goes to the first slide, fixed_slides[0] *)
EnsureTrustedAdult_FirstSlide(slides) ==
    IF ~_has_trusted_adult_reference(slides)
    THEN [slides |-> [slides EXCEPT ![1].text = @ \o TrustedAdultSentence],
          issues |-> <<"added trusted adult guidance">>]
    ELSE [slides |-> slides, issues |-> <<>>]

EnsureTrustedAdult(slides) ==
    IF ~_has_trusted_adult_reference(slides)
    THEN [slides |-> [slides EXCEPT ![Len(slides)].text = @ \o TrustedAdultSentence],
          issues |-> <<"added trusted adult guidance">>]
    ELSE [slides |-> slides, issues |-> <<>>]

(* mutant: the disabled critic still re-sequences the positions *)
PassThrough_Resequenced(slides) ==
    [status |-> "returned", slides |-> Resequence(slides), issues |-> <<>>, llm_review |-> None, review_requests |-> 0]

(* SafetyCriticResult(slides=slides, issues=[]): llm_review keeps its default *)
PassThrough(slides) ==
    [status |-> "returned", slides |-> slides, issues |-> <<>>, llm_review |-> None, review_requests |-> 0]

(* review_requests counts the review requests sent while the call ran *)
apply_safety_critic(st, slides, outcome) ==
    IF ~st.safety_critic_enabled
    THEN PassThrough(slides)
    ELSE IF slides = <<>>
    THEN [status |-> "raised", error |-> "SafetyCriticError", message |-> "No slides available for safety validation",
          review_requests |-> 0]
    ELSE IF st.safety_critic_strict /\ \E i \in 1..Len(slides) : IsBlank(slides[i])
    THEN LET i == CHOOSE i \in 1..Len(slides) : IsBlank(slides[i]) /\ \A j \in 1..(i - 1) : ~IsBlank(slides[j])
         IN [status |-> "raised", error |-> "SafetyCriticError", message |-> "Slide " \o ToString(i) \o " has empty text",
             review_requests |-> 0]
    ELSE With(FixLoop(st, slides, 0, <<>>, <<>>), LAMBDA loop :
         With(EnsureTrustedAdult(Resequence(_coerce_two_choice_branch(loop.fixed_slides))), LAMBDA guided :
         With(_run_optional_llm_review(st, outcome), LAMBDA review :
            IF review.raised # ""
            THEN [status |-> "raised", error |-> review.raised, message |-> "",
                  review_requests |-> review.requests]
            ELSE [status |-> "returned",
                  slides |-> guided.slides,
                  issues |-> loop.issues \o guided.issues,
                  llm_review |-> review.value,
                  review_requests |-> review.requests])))

----------------------------------------------------------------------------
(* story_generation.py: _normalize_choices, _validate_and_normalize_slides *)

MAX_RAW_SLIDES == 8
MIN_VALID_SLIDES == 3

(* chr(ord("a") + idx) *)
LetterId(idx) == SubSeq(LowerChars, idx + 1, idx + 1)

RECURSIVE NormalizeChoicesFrom(_, _, _)
NormalizeChoicesFrom(raw, idx, normalized) ==
    IF idx >= Len(raw) THEN normalized
    ELSE LET choice == raw[idx + 1]
             text == Get(choice, "text", None)
             correct == Get(choice, "correct", None)
             raw_id == Get(choice, "id", None)
             choice_id == IF IsStr(raw_id) /\ Strip(raw_id.str) # "" THEN Strip(raw_id.str) ELSE LetterId(idx)
         IN IF ~IsObject(choice) \/ ~IsStr(text) \/ ~IsBool(correct)
            THEN NormalizeChoicesFrom(raw, idx + 1, normalized)
            ELSE IF Strip(text.str) = ""
            THEN NormalizeChoicesFrom(raw, idx + 1, normalized)
            ELSE NormalizeChoicesFrom(raw, idx + 1,
                    Append(normalized, [id |-> choice_id, text |-> Strip(text.str), correct |-> correct.bool]))

_normalize_choices(raw_choices) ==
    IF ~IsList(raw_choices) THEN None
    ELSE With(NormalizeChoicesFrom(raw_choices.items, 0, <<>>), LAMBDA normalized :
            IF normalized = <<>> THEN None ELSE List(normalized))

(* if choices and not any(choice["correct"] ...): choices[0]["correct"] = True *)
ForceFirstCorrect(choices) ==
    IF IsList(choices) /\ ~\E j \in 1..Len(choices.items) : choices.items[j].correct
    THEN List([choices.items EXCEPT ![1].correct = TRUE])
    ELSE choices

(* mutant: a slide with blank text counts *)
IsValidRawSlide_BlankCounts(raw_slide) ==
    /\ IsObject(raw_slide)
    /\ IsStr(Get(raw_slide, "text", None))

IsValidRawSlide(raw_slide) ==
    /\ IsObject(raw_slide)
    /\ IsStr(Get(raw_slide, "text", None))
    /\ Strip(Get(raw_slide, "text", None).str) # ""

RECURSIVE NormalizeSlidesFrom(_, _, _)
NormalizeSlidesFrom(raw_slides, idx, slides) ==
    IF idx >= Min(MAX_RAW_SLIDES, Len(raw_slides)) THEN slides
    ELSE LET raw_slide == raw_slides[idx + 1]
         IN IF ~IsValidRawSlide(raw_slide)
            THEN NormalizeSlidesFrom(raw_slides, idx + 1, slides)
            ELSE NormalizeSlidesFrom(raw_slides, idx + 1,
                    Append(slides, [position |-> idx + 1,
                                    text |-> Strip(raw_slide.text.str),
                                    choices |-> ForceFirstCorrect(_normalize_choices(Get(raw_slide, "choices", None)))]))

GuidanceText(payload) == IF payload.moralLesson # "" THEN payload.moralLesson ELSE "Say no and tell a trusted adult."

NormalizerBranchSlide(payload) == [
    position |-> 2,
    text |-> "A risky moment appears about " \o Lower(payload.topic) \o ". What is the safest choice?",
    choices |-> List(<<
        [id |-> "a", text |-> GuidanceText(payload), correct |-> TRUE],
        [id |-> "b", text |-> "Ignore warning signs and go alone.", correct |-> FALSE] >>) ]

_validate_and_normalize_slides(raw_payload, payload) ==
    LET raw_slides == Get(raw_payload, "slides", None)
    IN IF ~IsList(raw_slides)
       THEN [status |-> "raised", error |-> "StoryGenerationError", message |-> "Model did not return valid slides list"]
       ELSE IF raw_slides.items = <<>>
       THEN [status |-> "raised", error |-> "StoryGenerationError", message |-> "Model did not return valid slides list"]
       ELSE With(NormalizeSlidesFrom(raw_slides.items, 0, <<>>), LAMBDA slides :
               IF Len(slides) < MIN_VALID_SLIDES
               THEN [status |-> "raised", error |-> "StoryGenerationError", message |-> "Model returned too few valid slides"]
               ELSE IF ~\E i \in 1..Len(slides) : IsList(slides[i].choices)
               THEN With(InsertAt(slides, Min(1, Len(slides)), NormalizerBranchSlide(payload)), LAMBDA inserted :
                       [status |-> "returned",
                        slides |-> Resequence(SubSeq(inserted, 1, Min(MAX_RAW_SLIDES, Len(inserted))))])
               ELSE [status |-> "returned", slides |-> slides])

----------------------------------------------------------------------------
(* the objects the two functions write to. A dict or list of the argument  *)
(* is named by its place in the argument; every dict or list the call      *)
(* itself makes is FreshObj. A write is the object, the key and the value  *)
(* of one assignment, append or insert of the code.                        *)

FreshObj == [kind |-> "fresh", slide |-> 0, choice |-> 0]
SlideObj(i) == [kind |-> "slide", slide |-> i, choice |-> 0]
ChoiceObj(i, j) == [kind |-> "choice", slide |-> i, choice |-> j]

Write(obj, key, value) == [obj |-> obj, key |-> key, value |-> value]

(* the writes to a dict that set its position, text and choices *)
SlideWrites(obj, slide) ==
    << Write(obj, "position", slide.position), Write(obj, "text", slide.text),
       Write(obj, "choices", slide.choices) >>

(* the writes to a choice dict that set its id, text and correct *)
ChoiceWrites(obj, choice) ==
    << Write(obj, "id", choice.id), Write(obj, "text", choice.text), Write(obj, "correct", choice.correct) >>

(* mutant: the loop keeps the input dict and updates it *)
NormalizedObj_InPlace(index) == SlideObj(index + 1)

(* normalized = {...}: the dict display makes a new dict for the slide *)
NormalizedObj(index) == FreshObj

(* cleaned_choices.append({...}): a new dict for every choice kept *)
CleanedChoiceObj(index, choice_idx) == FreshObj

(* the writes of the slide loop for the slides before index stop *)
RECURSIVE LoopWrites(_, _, _, _)
LoopWrites(st, slides, index, stop) ==
    IF index >= stop THEN <<>>
    ELSE With(FixSlide(st, index, slides[index + 1]).slide, LAMBDA normalized :
            SlideWrites(NormalizedObj(index),
                        [normalized EXCEPT !.choices = Get(slides[index + 1], "choices", None)])
            \o (IF IsList(Get(slides[index + 1], "choices", None))
                THEN <<Write(NormalizedObj(index), "choices", normalized.choices)>>
                ELSE <<>>)
            \o LoopWrites(st, slides, index + 1, stop))

(* the writes of _coerce_two_choice_branch: to the two choices and the     *)
(* slide that holds them, or to the list the slide is inserted into        *)
CoerceWrites(fixed_slides, coerced) ==
    IF \E i \in 1..Len(fixed_slides) : HasTwoChoices(fixed_slides[i])
    THEN \* the first such slide; its choices are the cleaned dicts
         With(SetMin({i \in 1..Len(fixed_slides) : HasTwoChoices(fixed_slides[i])}), LAMBDA i :
            ChoiceWrites(CleanedChoiceObj(i - 1, 0), coerced[i].choices.items[1])
            \o ChoiceWrites(CleanedChoiceObj(i - 1, 1), coerced[i].choices.items[2])
            \o <<Write(NormalizedObj(i - 1), "choices", coerced[i].choices)>>)
    ELSE <<Write(FreshObj, "insert", DefaultBranchSlide)>>

(* the dict at place idx of the list after _coerce_two_choice_branch *)
FixedSlideObj(idx, inserted) ==
    IF ~inserted THEN NormalizedObj(idx - 1)
    ELSE IF idx = 1 THEN NormalizedObj(0)
    ELSE IF idx = 2 THEN FreshObj
    ELSE NormalizedObj(idx - 2)

(* slide["position"] = idx + 1, then the sentence added to the last text *)
FinishWrites(coerced, guided, inserted) ==
    [idx \in 1..Len(coerced) |-> Write(FixedSlideObj(idx, inserted), "position", idx)]
    \o (IF guided[Len(guided)].text # coerced[Len(coerced)].text
        THEN <<Write(FixedSlideObj(Len(guided), inserted), "text", guided[Len(guided)].text)>>
        ELSE <<>>)

(* the writes of one call of apply_safety_critic, in order *)
CriticWrites(st, slides) ==
    IF ~st.safety_critic_enabled \/ slides = <<>> THEN <<>>
    ELSE IF st.safety_critic_strict /\ \E i \in 1..Len(slides) : IsBlank(slides[i])
    THEN LoopWrites(st, slides, 0, SetMin({i \in 1..Len(slides) : IsBlank(slides[i])}) - 1)
    ELSE With(FixLoop(st, slides, 0, <<>>, <<>>).fixed_slides, LAMBDA fixed_slides :
         With(_coerce_two_choice_branch(fixed_slides), LAMBDA coerced :
            LoopWrites(st, slides, 0, Len(slides))
            \o CoerceWrites(fixed_slides, coerced)
            \o FinishWrites(coerced, EnsureTrustedAdult(Resequence(coerced)).slides,
                            Len(coerced) > Len(fixed_slides))))

(* slides.append({...}) and normalized.append({...}) of the normalizer *)
NewSlideObj(idx) == FreshObj
NewChoiceObj(idx) == FreshObj

(* the writes of the normalizer's loop: a new dict per valid slide, and    *)
(* choices[0]["correct"] = True where no choice is correct                 *)
RECURSIVE NormalizeWritesFrom(_, _)
NormalizeWritesFrom(raw_slides, idx) ==
    IF idx >= Min(MAX_RAW_SLIDES, Len(raw_slides)) THEN <<>>
    ELSE IF ~IsValidRawSlide(raw_slides[idx + 1]) THEN NormalizeWritesFrom(raw_slides, idx + 1)
    ELSE With(_normalize_choices(Get(raw_slides[idx + 1], "choices", None)), LAMBDA choices :
            (IF choices # ForceFirstCorrect(choices)
             THEN <<Write(NewChoiceObj(idx), "correct", TRUE)>>
             ELSE <<>>)
            \o SlideWrites(NewSlideObj(idx),
                           [position |-> idx + 1, text |-> Strip(raw_slides[idx + 1].text.str),
                            choices |-> ForceFirstCorrect(choices)])
            \o NormalizeWritesFrom(raw_slides, idx + 1))

(* slides.insert(...), slides = slides[:8] and slide["position"] = index + 1: *)
(* cut holds the dicts as they stand before the positions are rewritten    *)
BranchWrites(payload, cut) ==
    <<Write(FreshObj, "insert", NormalizerBranchSlide(payload))>>
    \o [k \in 1..Len(cut) |->
            Write(IF k = 2 THEN FreshObj ELSE NewSlideObj(cut[k].position - 1), "position", k)]

(* the writes of one call of _validate_and_normalize_slides, in order *)
NormalizerWrites(raw_payload, payload) ==
    IF ~IsList(Get(raw_payload, "slides", None)) THEN <<>>
    ELSE With(NormalizeSlidesFrom(raw_payload.slides.items, 0, <<>>), LAMBDA slides :
            NormalizeWritesFrom(raw_payload.slides.items, 0)
            \o (IF Len(slides) >= MIN_VALID_SLIDES /\ ~\E i \in 1..Len(slides) : IsList(slides[i].choices)
                THEN With(InsertAt(slides, Min(1, Len(slides)), NormalizerBranchSlide(payload)), LAMBDA inserted :
                        BranchWrites(payload, SubSeq(inserted, 1, Min(MAX_RAW_SLIDES, Len(inserted)))))
                ELSE <<>>))

(* the argument as the writes leave it: a write to a fresh object does not *)
(* reach it                                                                *)
ApplyWrite(slides, w) ==
    CASE w.obj.kind = "slide" ->
            [slides EXCEPT ![w.obj.slide] = [@ EXCEPT ![w.key] = w.value]]
      [] w.obj.kind = "choice" ->
            [slides EXCEPT ![w.obj.slide].choices.items[w.obj.choice] = [@ EXCEPT ![w.key] = w.value]]
      [] OTHER -> slides

RECURSIVE ApplyWrites(_, _, _)
ApplyWrites(slides, writes, k) ==
    IF k > Len(writes) THEN slides ELSE ApplyWrites(ApplyWrite(slides, writes[k]), writes, k + 1)

----------------------------------------------------------------------------
(* story_generation.py: _ollama_generate_json, build_default_branching_slides *)

(* how the Ollama server answers one generate request *)
GenerateOutcomes == {"unreachable", "timeout", "body_not_json", "body_not_object",
                     "response_not_string", "response_empty", "no_json_object",
                     "invalid_json", "object"}

GenerationError(message) == [status |-> "raised", error |-> "StoryGenerationError", message |-> message]

(* parsed is the JSON object found in the response text, when there is one *)
_ollama_generate_json(outcome, parsed) ==
    CASE outcome \in {"unreachable", "timeout"} -> GenerationError("Cannot reach Ollama server")
      [] outcome = "body_not_json" -> GenerationError("Invalid response from Ollama")
      [] outcome = "body_not_object" -> [status |-> "raised", error |-> "AttributeError", message |-> ""]
      [] outcome = "response_not_string" -> GenerationError("Unexpected Ollama payload format")
      [] outcome = "response_empty" -> GenerationError("Model returned empty response")
      [] outcome = "no_json_object" -> GenerationError("No JSON object found in model response")
      [] outcome = "invalid_json" -> GenerationError("Invalid JSON returned by model")
      [] outcome = "object" -> [status |-> "returned", value |-> parsed]

(* payload.moralLesson or "...", payload.regionContext or "...": "" stands for None *)
DefaultGuidanceText(payload) ==
    IF payload.moralLesson # "" THEN payload.moralLesson
    ELSE "Say no, move to safety, and tell a trusted adult immediately."

build_default_branching_slides(payload) == <<
    [position |-> 1,
     text |-> payload.title \o " begins in "
              \o (IF payload.regionContext # "" THEN payload.regionContext ELSE "a familiar neighborhood")
              \o " where children are learning how to stay safe.",
     choices |-> None],
    [position |-> 2,
     text |-> "A tricky situation appears around " \o Lower(payload.topic) \o ". What should the child do?",
     choices |-> List(<<
        [id |-> "a", text |-> DefaultGuidanceText(payload), correct |-> TRUE],
        [id |-> "b", text |-> "Keep it secret and stay quiet.", correct |-> FALSE] >>)],
    [position |-> 3,
     text |-> "The child makes a safe choice and learns: " \o DefaultGuidanceText(payload),
     choices |-> None] >>

----------------------------------------------------------------------------
(* config.py: Settings defaults *)

DEFAULT_MAX_TEXT_LENGTH == 320
DEFAULT_MAX_SCARY_TERMS == 2

DefaultSettings == [safety_critic_enabled |-> TRUE,
                    safety_critic_strict |-> FALSE,
                    safety_critic_max_text_length |-> DEFAULT_MAX_TEXT_LENGTH,
                    safety_critic_max_scary_terms_per_slide |-> DEFAULT_MAX_SCARY_TERMS,
                    safety_critic_enable_llm_review |-> FALSE,
                    ollama_enabled |-> TRUE,
                    ollama_fallback_to_default |-> TRUE]

(* bounds of the model *)
SmallMaxTextLength == 40
MaxSlides == 2
MaxRawSlides == 3
LongTextRepeats == 33
MaxLongRaw == 9

(* the configurations explored: every combination of the enabled flag,     *)
(* strict mode and the two length caps; the LLM review is turned on with   *)
(* the other fields at their defaults, critic enabled or not; generation   *)
(* is switched off with and without the fallback, and the fallback is      *)
(* switched off in strict and in lenient mode                              *)
SettingsSet ==
    {[DefaultSettings EXCEPT !.safety_critic_enabled = e,
                             !.safety_critic_strict = s,
                             !.safety_critic_max_text_length = m] :
        e \in BOOLEAN, s \in BOOLEAN, m \in {SmallMaxTextLength, DEFAULT_MAX_TEXT_LENGTH}}
    \cup {[DefaultSettings EXCEPT !.safety_critic_enabled = e,
                                  !.safety_critic_enable_llm_review = TRUE] : e \in BOOLEAN}
    \cup {[DefaultSettings EXCEPT !.ollama_enabled = FALSE, !.ollama_fallback_to_default = f] : f \in BOOLEAN}
    \cup {[DefaultSettings EXCEPT !.safety_critic_strict = s, !.ollama_fallback_to_default = FALSE] : s \in BOOLEAN}

RECURSIVE Repeat(_, _)
Repeat(s, n) == IF n = 0 THEN "" ELSE s \o Repeat(s, n - 1)

(* slides handed to the critic *)
LongText == Repeat("Walk home. ", LongTextRepeats)
ChoiceA == [id |-> "a", text |-> "Run to a safe place.", correct |-> TRUE]
ChoiceB == [id |-> "b", text |-> "Follow the stranger.", correct |-> FALSE]

SlideInputs == {
    [position |-> 1, text |-> "  ", choices |-> None],
    [position |-> 1, text |-> "The man had a gun and threatened the child", choices |-> None],
    [position |-> 2, text |-> "Ask a teacher for help.", choices |-> List(<<ChoiceA, ChoiceB>>)],
    [position |-> 3, text |-> "An attack! Attack again, ATTACK.", choices |-> List(<<ChoiceB>>)],
    [position |-> 1, text |-> "See \\bdie\\b, \\bATTACK\\b, \\bviolence\\b and \\bGun\\b.", choices |-> None],
    [position |-> 1, text |-> LongText, choices |-> None],
    [position |-> 2, text |-> "Stay calm.",
     choices |-> List(<<[text |-> "Take the knife."], [id |-> "", text |-> " ", correct |-> TRUE], ChoiceA>>)],
    [position |-> 2, text |-> "Stay calm.", choices |-> List(<<JStr("junk"), ChoiceA>>)],
    [position |-> 2, text |-> "Ask a parent.", choices |-> List(<<ChoiceB, [text |-> "Wait here.", correct |-> TRUE]>>)] }

RECURSIVE SeqsUpTo(_, _)
SeqsUpTo(S, n) ==
    IF n = 0 THEN {<<>>}
    ELSE LET shorter == SeqsUpTo(S, n - 1)
         IN shorter \cup {Append(q, x) : q \in {r \in shorter : Len(r) = n - 1}, x \in S}

SlideListInputs == SeqsUpTo(SlideInputs, MaxSlides)

(* raw generator payloads handed to the normalizer *)
RawT == [text |-> JStr("Run to a safe place."), correct |-> JBool(TRUE)]
RawF == [id |-> JStr("x"), text |-> JStr(" Follow the stranger. "), correct |-> JBool(FALSE)]
RawB == [id |-> JStr(" b "), text |-> JStr("Walk away."), correct |-> JBool(FALSE)]
RawText == JStr(" Mina walks to school. ")

RawSlideInputs == {
    [position |-> JNum(1), text |-> RawText],
    [position |-> JNum(1), text |-> RawText, choices |-> List(<<RawT, RawF>>)],
    [text |-> RawText, choices |-> List(<<JStr("junk"), [text |-> JStr("no flag")], RawF>>)],
    [text |-> RawText, choices |-> List(<<RawT, RawT, RawF>>)],
    [text |-> RawText, choices |-> List(<<RawB, RawT>>)],
    [text |-> JStr("  "), choices |-> None] }

(* longer raw lists: k entries that are not objects, then slides with      *)
(* distinct texts; the last slide carries two choices or none              *)
RawJunk == JNum(0)
RawStep(i) == [text |-> JStr("Step " \o ToString(i) \o ".")]
RawBranchStep(i) == [text |-> JStr("Step " \o ToString(i) \o "."), choices |-> List(<<RawT, RawF>>)]

LongRawLists ==
    {[i \in 1..n |-> IF i <= k THEN RawJunk
                     ELSE IF i = n /\ branch THEN RawBranchStep(i)
                     ELSE RawStep(i)] :
        n \in 4..MaxLongRaw, k \in 0..(MaxLongRaw - 3), branch \in BOOLEAN}

RawPayloadInputs ==
    {[slides |-> List(q)] : q \in SeqsUpTo(RawSlideInputs, MaxRawSlides) \cup LongRawLists}
    \cup {[slides |-> JStr("none")], [x \in {} |-> TRUE]}

PayloadInputs == {[title |-> "Safe Walk", topic |-> "Road Safety", regionContext |-> "", moralLesson |-> ""],
                  [title |-> "Mina", topic |-> "Strangers", regionContext |-> "Pune", moralLesson |-> "Tell your mother."]}

OutcomeInputs(st) == IF st.safety_critic_enable_llm_review THEN ReviewOutcomes ELSE {"unreachable"}

----------------------------------------------------------------------------
(* state machine: one request at a time *)

NotRun == [status |-> "none"]
NoRequest == [response |-> 0]
NoPublish == [pc |-> "none", count |-> 0]
IdleSignup == [pc |-> "idle"]

(* bounds: the ngo_signup requests in flight, the publish requests made *)
MaxSignups == 2
MaxPublishRequests == 2

Init ==
    /\ settings \in SettingsSet
    /\ llm_endpoint \in OutcomeInputs(settings)
    /\ pc = "idle"
    /\ critic_in = <<>>
    /\ critic_out = NotRun
    /\ rerun_out = NotRun
    /\ raw_in = [payload |-> [topic |-> "", moralLesson |-> ""], raw |-> None]
    /\ norm_out = NotRun
    /\ ollama_calls = <<>>
    /\ story = NoRequest
    /\ stories = <<>>
    /\ slide_rows = <<>>
    /\ publish = NoPublish
    /\ ngo_accounts = <<>>
    /\ signups = [r \in 1..MaxSignups |-> IdleSignup]

(* the review requests a call of apply_safety_critic sent *)
ReviewCalls(result) == IF result.review_requests > 0 THEN <<"review">> ELSE <<>>

(* apply_safety_critic(payload, slides) on a slide list *)
CallCritic ==
    /\ pc = "idle"
    /\ \E slides \in SlideListInputs :
        \E result \in {apply_safety_critic(settings, slides, llm_endpoint)} :
            /\ critic_in' = slides
            /\ critic_out' = result
            /\ ollama_calls' = ollama_calls \o ReviewCalls(result)
    /\ pc' = "critic_done"
    /\ UNCHANGED <<publish, ngo_accounts, signups, settings, llm_endpoint, rerun_out, raw_in, norm_out, story, stories, slide_rows>>

(* _validate_and_normalize_slides(story_output, payload) *)
CallNormalizer ==
    /\ pc = "idle"
    /\ \E raw \in RawPayloadInputs, payload \in PayloadInputs :
        /\ raw_in' = [payload |-> payload, raw |-> raw]
        /\ norm_out' = _validate_and_normalize_slides(raw, payload)
    /\ pc' = "normalized"
    /\ UNCHANGED <<publish, ngo_accounts, signups, settings, llm_endpoint, critic_in, critic_out, rerun_out,
                   ollama_calls, story, stories, slide_rows>>

(* the normalizer's slides go through the critic, as in create_story *)
CallCriticOnNormalized ==
    /\ pc = "normalized"
    /\ norm_out.status = "returned"
    /\ \E result \in {apply_safety_critic(settings, norm_out.slides, llm_endpoint)} :
        /\ critic_in' = norm_out.slides
        /\ critic_out' = result
        /\ ollama_calls' = ollama_calls \o ReviewCalls(result)
    /\ pc' = "pipeline_done"
    /\ UNCHANGED <<publish, ngo_accounts, signups, settings, llm_endpoint, rerun_out, raw_in, norm_out, story, stories, slide_rows>>

(* apply_safety_critic on the slides it returned *)
RerunCritic ==
    /\ pc \in {"critic_done", "pipeline_done"}
    /\ critic_out.status = "returned"
    /\ \E result \in {apply_safety_critic(settings, critic_out.slides, llm_endpoint)} :
        /\ rerun_out' = result
        /\ ollama_calls' = ollama_calls \o ReviewCalls(result)
    /\ pc' = "rerun_done"
    /\ UNCHANGED <<publish, ngo_accounts, signups, settings, llm_endpoint, critic_in, critic_out, raw_in, norm_out,
                   story, stories, slide_rows>>

----------------------------------------------------------------------------
(* main.py: create_story, one step per outbound call *)

NGO_ID == "ngo-1"

(* how the database answers the NGO lookup and the story insert *)
StoryDbOutcomes == {"permission_denied", "api_error", "ngo_missing", "insert_empty", "inserted"}
SlideDbOutcomes == {"api_error", "inserted"}
ImageOutcomes == {"placeholders", "generated", "failed"}

PLACEHOLDER_URL == "https://images.unsplash.com/photo-1557804506-669714d2e9d8?w=400&h=300&fit=crop"

(* the locals of a request that has passed the story insert *)
NewRequest(payload, story_id) ==
    [payload |-> payload, story_id |-> story_id, slides_source |-> "ollama",
     slides_to_store |-> <<>>, planner |-> "none", images |-> "none", image_urls |-> <<>>,
     response |-> 0, detail |-> ""]

StoryRow(payload, story_id) ==
    [id |-> story_id, ngo_id |-> NGO_ID, title |-> payload.title, topic |-> payload.topic,
     moral_lesson |-> payload.moralLesson, status |-> "draft"]

(* raise HTTPException(status_code, detail): the request ends *)
Respond(request, status_code, detail) ==
    [pc |-> "responded", story |-> [request EXCEPT !.response = status_code, !.detail = detail]]

(* an exception that no except clause of create_story names *)
OnUncaught(request, error) == Respond(request, 500, error)

(* except StoryGenerationError as error *)
OnGenerationError(st, request, message) ==
    IF ~st.ollama_fallback_to_default
    THEN Respond(request, 502, "Story generation failed: " \o message)
    ELSE [pc |-> "generated",
          story |-> [request EXCEPT !.slides_source = "default",
                                    !.slides_to_store = build_default_branching_slides(request.payload)]]

(* what create_story does with a call of the generation code that raised *)
OnGenerationRaised(st, request, result) ==
    IF result.error = "StoryGenerationError"
    THEN OnGenerationError(st, request, result.message)
    ELSE OnUncaught(request, result.error)

(* mutant: a verdict that does not approve ends the request *)
OnCriticResult_Enforced(st, request, result) ==
    IF result.status = "returned"
    THEN IF "approved" \in DOMAIN result.llm_review /\ ~result.llm_review.approved
         THEN Respond(request, 422, "Safety validation failed: review")
         ELSE [pc |-> "criticized", story |-> [request EXCEPT !.slides_to_store = result.slides]]
    ELSE IF result.error # "SafetyCriticError"
    THEN OnUncaught(request, result.error)
    ELSE IF st.safety_critic_strict
    THEN Respond(request, 422, "Safety validation failed: " \o result.message)
    ELSE [pc |-> "criticized",
          story |-> [request EXCEPT !.slides_to_store = build_default_branching_slides(request.payload)]]

(* mutant: the critic's slides are not taken over *)
OnCriticResult_KeepInput(st, request, result) ==
    IF result.status = "returned"
    THEN [pc |-> "criticized", story |-> request]
    ELSE IF result.error # "SafetyCriticError"
    THEN OnUncaught(request, result.error)
    ELSE IF st.safety_critic_strict
    THEN Respond(request, 422, "Safety validation failed: " \o result.message)
    ELSE [pc |-> "criticized",
          story |-> [request EXCEPT !.slides_to_store = build_default_branching_slides(request.payload)]]

(* the try block around apply_safety_critic *)
OnCriticResult(st, request, result) ==
    IF result.status = "returned"
    THEN [pc |-> "criticized", story |-> [request EXCEPT !.slides_to_store = result.slides]]
    ELSE IF result.error # "SafetyCriticError"
    THEN OnUncaught(request, result.error)
    ELSE IF st.safety_critic_strict
    THEN Respond(request, 422, "Safety validation failed: " \o result.message)
    ELSE [pc |-> "criticized",
          story |-> [request EXCEPT !.slides_to_store = build_default_branching_slides(request.payload)]]

(* mutant: when a slide's image fails, the URLs made before it are kept *)
ImageUrls_KeepGenerated(outcome, story_id, slides) ==
    [index \in 1..Len(slides) |->
        CASE outcome = "placeholders" -> JStr(PLACEHOLDER_URL)
          [] outcome = "generated" \/ (outcome = "failed" /\ index < Len(slides)) ->
                JStr("http://127.0.0.1:8000/generated-images/" \o ToString(story_id) \o "-"
                        \o ToString(slides[index].position) \o ".png")
          [] OTHER -> None]

(* generate_story_images: a URL string or null for every slide; a         *)
(* generated file's name is cut to story id and position                   *)
ImageUrls(outcome, story_id, slides) ==
    [index \in 1..Len(slides) |->
        CASE outcome = "placeholders" -> JStr(PLACEHOLDER_URL)
          [] outcome = "generated" ->
                JStr("http://127.0.0.1:8000/generated-images/" \o ToString(story_id) \o "-"
                        \o ToString(slides[index].position) \o ".png")
          [] outcome = "failed" -> None]

SlidesPayload(story_id, slides, image_urls) ==
    [index \in 1..Len(slides) |->
        [story_id |-> story_id,
         position |-> slides[index].position,
         image_url |-> image_urls[index],
         text |-> slides[index].text,
         choices |-> slides[index].choices]]

(* the NGO lookup and the insert of the story row *)
CreateStory ==
    /\ pc = "idle"
    /\ \E payload \in PayloadInputs, db \in StoryDbOutcomes :
        \E request \in {NewRequest(payload, Len(stories) + 1)} :
            CASE db = "permission_denied" ->
                    /\ story' = Respond(request, 403, "Database permission denied by Supabase RLS").story
                    /\ pc' = "responded"
                    /\ stories' = stories
              [] db = "api_error" ->
                    /\ story' = Respond(request, 502, "Database error").story
                    /\ pc' = "responded"
                    /\ stories' = stories
              [] db = "ngo_missing" ->
                    /\ story' = Respond(request, 403, "NGO not found").story
                    /\ pc' = "responded"
                    /\ stories' = stories
              [] db = "insert_empty" ->
                    /\ story' = Respond(request, 500, "Failed to create story").story
                    /\ pc' = "responded"
                    /\ stories' = stories
              [] db = "inserted" ->
                    /\ story' = request
                    /\ pc' = "generating"
                    /\ stories' = Append(stories, StoryRow(payload, request.story_id))
    /\ UNCHANGED <<publish, ngo_accounts, signups, settings, llm_endpoint, critic_in, critic_out, rerun_out, raw_in, norm_out,
                   ollama_calls, slide_rows>>

(* generate_story_with_ollama up to the planner call and _validate_context *)
PlannerCall ==
    /\ pc = "generating"
    /\ IF ~settings.ollama_enabled
       THEN /\ ollama_calls' = ollama_calls
            /\ \E next \in {OnGenerationError(settings, story, "Ollama generation is disabled")} :
                story' = next.story /\ pc' = next.pc
       ELSE /\ ollama_calls' = Append(ollama_calls, "planner")
            /\ \E outcome \in GenerateOutcomes :
                \E result \in {_ollama_generate_json(outcome, EmptyObject)} :
                    IF result.status = "returned"
                    THEN story' = [story EXCEPT !.planner = "returned"] /\ pc' = "planned"
                    ELSE \E next \in {OnGenerationRaised(settings, [story EXCEPT !.planner = "raised"], result)} :
                            story' = next.story /\ pc' = next.pc
    /\ UNCHANGED <<publish, ngo_accounts, signups, settings, llm_endpoint, critic_in, critic_out, rerun_out, raw_in, norm_out,
                   stories, slide_rows>>

(* mutant: a failed generator call leaves the request where it was, to try again *)
GeneratorCall_Retry ==
    /\ pc = "planned"
    /\ Len(ollama_calls) < 3
    /\ ollama_calls' = Append(ollama_calls, "generator")
    /\ \E outcome \in GenerateOutcomes \ {"object"} :
        /\ UNCHANGED <<raw_in, norm_out, story, pc>>
    /\ UNCHANGED <<publish, ngo_accounts, signups, settings, llm_endpoint, critic_in, critic_out, rerun_out, stories, slide_rows>>

(* generate_story_with_ollama from the generator call to its return *)
GeneratorCall ==
    /\ pc = "planned"
    /\ ollama_calls' = Append(ollama_calls, "generator")
    /\ \E outcome \in GenerateOutcomes :
        \E raw \in (IF outcome = "object" THEN RawPayloadInputs ELSE {EmptyObject}) :
            \E result \in {_ollama_generate_json(outcome, raw)} :
                IF result.status = "raised"
                THEN /\ UNCHANGED <<raw_in, norm_out>>
                     /\ \E next \in {OnGenerationRaised(settings, story, result)} :
                            story' = next.story /\ pc' = next.pc
                ELSE \E normalized \in {_validate_and_normalize_slides(result.value, story.payload)} :
                        /\ raw_in' = [payload |-> story.payload, raw |-> result.value]
                        /\ norm_out' = normalized
                        /\ IF normalized.status = "raised"
                           THEN \E next \in {OnGenerationRaised(settings, story, normalized)} :
                                    story' = next.story /\ pc' = next.pc
                           ELSE /\ story' = [story EXCEPT !.slides_to_store = normalized.slides]
                                /\ pc' = "generated"
    /\ UNCHANGED <<publish, ngo_accounts, signups, settings, llm_endpoint, critic_in, critic_out, rerun_out, stories, slide_rows>>

(* the safety critic on the slides to store *)
RunCritic ==
    /\ pc = "generated"
    /\ \E result \in {apply_safety_critic(settings, story.slides_to_store, llm_endpoint)} :
        /\ critic_in' = story.slides_to_store
        /\ critic_out' = result
        /\ ollama_calls' = ollama_calls \o ReviewCalls(result)
        /\ \E next \in {OnCriticResult(settings, story, result)} :
            story' = next.story /\ pc' = next.pc
    /\ UNCHANGED <<publish, ngo_accounts, signups, settings, llm_endpoint, rerun_out, raw_in, norm_out, stories, slide_rows>>

(* mutant: a failed slide insert takes the story row back *)
StoreSlides_Rollback ==
    /\ pc = "criticized"
    /\ \E images \in ImageOutcomes, db \in SlideDbOutcomes :
        \E request \in {[story EXCEPT !.images = images,
                                        !.image_urls = ImageUrls(images, story.story_id,
                                                                 story.slides_to_store)]} :
            IF db = "inserted"
            THEN /\ slide_rows' = slide_rows \o SlidesPayload(request.story_id, request.slides_to_store,
                                                              request.image_urls)
                 /\ stories' = stories
                 /\ story' = Respond(request, 200, "").story
            ELSE /\ slide_rows' = slide_rows
                 /\ stories' = SubSeq(stories, 1, Len(stories) - 1)
                 /\ story' = OnUncaught(request, "APIError").story
    /\ pc' = "responded"
    /\ UNCHANGED <<publish, ngo_accounts, signups, settings, llm_endpoint, critic_in, critic_out, rerun_out, raw_in, norm_out,
                   ollama_calls>>

(* the images, the insert of the slide rows and the response *)
StoreSlides ==
    /\ pc = "criticized"
    /\ \E images \in ImageOutcomes, db \in SlideDbOutcomes :
        \E request \in {[story EXCEPT !.images = images,
                                        !.image_urls = ImageUrls(images, story.story_id,
                                                                 story.slides_to_store)]} :
            IF db = "inserted"
            THEN /\ slide_rows' = slide_rows \o SlidesPayload(request.story_id, request.slides_to_store,
                                                              request.image_urls)
                 /\ story' = Respond(request, 200, "").story
            ELSE /\ slide_rows' = slide_rows
                 /\ story' = OnUncaught(request, "APIError").story
    /\ pc' = "responded"
    /\ UNCHANGED <<publish, ngo_accounts, signups, settings, llm_endpoint, critic_in, critic_out, rerun_out, raw_in, norm_out,
                   ollama_calls, stories>>

Next ==
    \/ CallCritic \/ CallNormalizer \/ CallCriticOnNormalized \/ RerunCritic
    \/ CreateStory \/ PlannerCall \/ GeneratorCall \/ RunCritic \/ StoreSlides

Spec == Init /\ [][Next]_vars

----------------------------------------------------------------------------
(* main.py: raise_supabase_http_error; auth.py: get_current_ngo;           *)
(* main.py: publish_story, one step per database call                      *)

OTHER_NGO_ID == "ngo-2"

(* the subject and the role of the verified token *)
TokenSubjects == {NGO_ID, OTHER_NGO_ID}
TokenRoles == {"ngo", "student"}

(* how the database answers the select and the update *)
SelectDbOutcomes == {"permission_denied", "api_error", "answered"}
UpdateDbOutcomes == {"permission_denied", "api_error", "update_empty", "updated"}

(* the HTTPException raised for an APIError of the database *)
raise_supabase_http_error(db) ==
    IF db = "permission_denied"
    THEN [status_code |-> 403, detail |-> "Database permission denied by Supabase RLS"]
    ELSE [status_code |-> 502, detail |-> "Database error"]

(* the rows of the stories table with this id *)
StoriesWithId(story_id) == {k \in 1..Len(stories) : stories[k].id = story_id}

PublishResponse(request, status_code, detail) ==
    [request EXCEPT !.pc = "done", !.response = status_code, !.detail = detail]

(* mutant: the story's ngo_id is not compared with the token's subject *)
PublishSelect_NoOwnerCheck ==
    /\ pc = "responded"
    /\ publish.pc \in {"none", "done"}
    /\ publish.count < MaxPublishRequests
    /\ \E sub \in TokenSubjects, role \in TokenRoles, story_id \in 1..(Len(stories) + 1),
          db \in SelectDbOutcomes :
        \E request \in {[pc |-> "select", count |-> publish.count + 1, sub |-> sub, role |-> role,
                         story_id |-> story_id, db |-> db, response |-> 0, detail |-> ""]} :
            publish' =
                IF role # "ngo"
                THEN PublishResponse(request, 403, "Only NGO accounts can access this resource")
                ELSE IF db # "answered"
                THEN PublishResponse(request, raise_supabase_http_error(db).status_code,
                                     raise_supabase_http_error(db).detail)
                ELSE IF StoriesWithId(story_id) = {}
                THEN PublishResponse(request, 404, "Story not found")
                ELSE [request EXCEPT !.pc = "update"]
    /\ UNCHANGED <<settings, llm_endpoint, pc, critic_in, critic_out, rerun_out, raw_in, norm_out,
                   ollama_calls, story, stories, slide_rows, ngo_accounts, signups>>

(* get_current_ngo, then the select of the story and the owner check *)
PublishSelect ==
    /\ pc = "responded"
    /\ publish.pc \in {"none", "done"}
    /\ publish.count < MaxPublishRequests
    /\ \E sub \in TokenSubjects, role \in TokenRoles, story_id \in 1..(Len(stories) + 1),
          db \in SelectDbOutcomes :
        \E request \in {[pc |-> "select", count |-> publish.count + 1, sub |-> sub, role |-> role,
                         story_id |-> story_id, db |-> db, response |-> 0, detail |-> ""]} :
            publish' =
                IF role # "ngo"
                THEN PublishResponse(request, 403, "Only NGO accounts can access this resource")
                ELSE IF db # "answered"
                THEN PublishResponse(request, raise_supabase_http_error(db).status_code,
                                     raise_supabase_http_error(db).detail)
                ELSE IF StoriesWithId(story_id) = {}
                THEN PublishResponse(request, 404, "Story not found")
                ELSE IF stories[SetMin(StoriesWithId(story_id))].ngo_id # sub
                THEN PublishResponse(request, 403, "You can only publish your own stories")
                ELSE [request EXCEPT !.pc = "update"]
    /\ UNCHANGED <<settings, llm_endpoint, pc, critic_in, critic_out, rerun_out, raw_in, norm_out,
                   ollama_calls, story, stories, slide_rows, ngo_accounts, signups>>

(* update({"status": "published"}).eq("id", story_id) and the response *)
PublishUpdate ==
    /\ publish.pc = "update"
    /\ \E db \in UpdateDbOutcomes :
        CASE db = "updated" ->
                /\ stories' = [k \in 1..Len(stories) |->
                                  IF stories[k].id = publish.story_id
                                  THEN [stories[k] EXCEPT !.status = "published"]
                                  ELSE stories[k]]
                /\ publish' = PublishResponse([publish EXCEPT !.db = db], 200, "")
          [] db = "update_empty" ->
                /\ stories' = stories
                /\ publish' = PublishResponse([publish EXCEPT !.db = db], 500, "Failed to publish story")
          [] OTHER ->
                /\ stories' = stories
                /\ publish' = PublishResponse([publish EXCEPT !.db = db],
                                              raise_supabase_http_error(db).status_code,
                                              raise_supabase_http_error(db).detail)
    /\ UNCHANGED <<settings, llm_endpoint, pc, critic_in, critic_out, rerun_out, raw_in, norm_out,
                   ollama_calls, story, slide_rows, ngo_accounts, signups>>

(* create_story with the default settings, then publish requests *)
PublishInit == Init /\ settings = DefaultSettings

PublishNext ==
    \/ CreateStory \/ PlannerCall \/ GeneratorCall \/ RunCritic \/ StoreSlides
    \/ PublishSelect \/ PublishUpdate

PublishSpec == PublishInit /\ [][PublishNext]_vars

----------------------------------------------------------------------------
(* main.py: ngo_signup, one step per database call; the requests run      *)
(* side by side                                                            *)

SignupEmails == {"asha@ngo.org", "ravi@ngo.org"}

(* how the database answers the insert of an account row. Whether the      *)
(* table has a unique constraint on email is not in the repository: a row  *)
(* whose email is taken is stored or refused with an APIError              *)
InsertDbOutcomes == {"permission_denied", "api_error", "insert_empty", "inserted", "unique_violation"}

AccountsWithEmail(rows, email) == {k \in 1..Len(rows) : rows[k].email = email}

SignupResponse(request, status_code, detail) ==
    [request EXCEPT !.pc = "done", !.response = status_code, !.detail = detail]

(* the required fields and the select of the rows with the email *)
SignupCheck(r) ==
    /\ signups[r].pc = "idle"
    /\ \E email \in SignupEmails \cup {""}, db \in SelectDbOutcomes :
        \E request \in {[pc |-> "check", email |-> email, check_db |-> db, insert_db |-> "",
                         response |-> 0, detail |-> ""]} :
            signups' = [signups EXCEPT ![r] =
                IF email = ""
                THEN SignupResponse(request, 400, "Email, password, and organization name are required")
                ELSE IF db # "answered"
                THEN SignupResponse(request, raise_supabase_http_error(db).status_code,
                                    raise_supabase_http_error(db).detail)
                ELSE IF AccountsWithEmail(ngo_accounts, email) # {}
                THEN SignupResponse(request, 409, "Email already registered")
                ELSE [request EXCEPT !.pc = "insert"]]
    /\ UNCHANGED <<settings, llm_endpoint, pc, critic_in, critic_out, rerun_out, raw_in, norm_out,
                   ollama_calls, story, stories, slide_rows, publish, ngo_accounts>>

(* the insert of the account row, the token and the response *)
SignupInsert(r) ==
    /\ signups[r].pc = "insert"
    /\ \E db \in InsertDbOutcomes :
        /\ db = "unique_violation" => AccountsWithEmail(ngo_accounts, signups[r].email) # {}
        /\ \E request \in {[signups[r] EXCEPT !.insert_db = db]} :
            CASE db = "inserted" ->
                    /\ ngo_accounts' = Append(ngo_accounts,
                                              [id |-> Len(ngo_accounts) + 1, email |-> request.email])
                    /\ signups' = [signups EXCEPT ![r] = SignupResponse(request, 200, "")]
              [] db = "insert_empty" ->
                    /\ ngo_accounts' = ngo_accounts
                    /\ signups' = [signups EXCEPT ![r] =
                                      SignupResponse(request, 500, "Failed to create account")]
              [] db = "permission_denied" ->
                    /\ ngo_accounts' = ngo_accounts
                    /\ signups' = [signups EXCEPT ![r] =
                                      SignupResponse(request, 403,
                                                     raise_supabase_http_error(db).detail)]
              [] OTHER ->
                    /\ ngo_accounts' = ngo_accounts
                    /\ signups' = [signups EXCEPT ![r] =
                                      SignupResponse(request, 502,
                                                     raise_supabase_http_error("api_error").detail)]
    /\ UNCHANGED <<settings, llm_endpoint, pc, critic_in, critic_out, rerun_out, raw_in, norm_out,
                   ollama_calls, story, stories, slide_rows, publish>>

SignupInit == Init /\ settings = DefaultSettings

SignupNext == \E r \in 1..MaxSignups : SignupCheck(r) \/ SignupInsert(r)

SignupSpec == SignupInit /\ [][SignupNext]_vars

----------------------------------------------------------------------------
(* vocabulary of the properties *)

(* the calls of apply_safety_critic made so far: argument and outcome *)
Calls ==
    (IF critic_out.status # "none" THEN {[in |-> critic_in, out |-> critic_out]} ELSE {})
    \cup (IF rerun_out.status # "none" THEN {[in |-> critic_out.slides, out |-> rerun_out]} ELSE {})

(* the calls that returned with the critic enabled *)
Returned == {c \in Calls : settings.safety_critic_enabled /\ c.out.status = "returned"}

RaisedCriticError(c) == c.out.status = "raised" /\ c.out.error = "SafetyCriticError"

InSeq(x, seq) == \E k \in 1..Len(seq) : seq[k] = x

StartsWith(s, prefix) == Len(prefix) <= Len(s) /\ SubSeq(s, 1, Len(prefix)) = prefix

WordChars == CharSet(UpperChars) \cup CharSet(LowerChars) \cup CharSet(Digits) \cup {"_"}

(* term stands at position i of value as a whole word *)
WholeWordAt(term, value, i) ==
    /\ MatchAt(term, value, i)
    /\ i = 1 \/ SubSeq(value, i - 1, i - 1) \notin WordChars
    /\ i + Len(term) > Len(value) \/ SubSeq(value, i + Len(term), i + Len(term)) \notin WordChars

(* the whole-word, case-insensitive occurrences of the terms in text *)
WholeWordOccurrences(terms, text) ==
    With(Lower(text), LAMBDA value :
    With({SubSeq(term, 1, 1) : term \in terms}, LAMBDA first_chars :
        {<<i, term>> \in {i \in 1..Len(value) : SubSeq(value, i, i) \in first_chars} \X terms :
            WholeWordAt(term, value, i)}))

UnsafeTerms == {UNSAFE_REPLACEMENTS[k][1] : k \in 1..Len(UNSAFE_REPLACEMENTS)}

ChoiceTexts(slide) ==
    IF IsList(slide.choices)
    THEN {slide.choices.items[j].text : j \in 1..Len(slide.choices.items)}
    ELSE {}

SlideTexts(slides) == UNION {{slides[i].text} \cup ChoiceTexts(slides[i]) : i \in 1..Len(slides)}

(* a two-entry choice list, one entry correct and the other not *)
ValidBranch(slide) ==
    /\ IsList(slide.choices)
    /\ Len(slide.choices.items) = 2
    /\ slide.choices.items[1].correct # slide.choices.items[2].correct

BranchCount(slides) == Cardinality({i \in 1..Len(slides) : ValidBranch(slides[i])})

(* the input slides that carry a list of two or more choices *)
MultiChoiceInputs(slides) ==
    {i \in 1..Len(slides) : IsList(slides[i].choices) /\ Len(slides[i].choices.items) >= 2}

(* where input slide i stands in the output: after an insertion at index 1 *)
(* every slide but the first has moved by one                              *)
OutIndex(c, i) == IF Len(c.out.slides) > Len(c.in) /\ i >= 2 THEN i + 1 ELSE i

AllSpace(text) == \A i \in 1..Len(text) : IsSpace(SubSeq(text, i, i))

GuidanceIssue == "added trusted adult guidance"

----------------------------------------------------------------------------
(* C1: with the critic enabled, no returned slide text and no returned     *)
(* choice text contains an unsafe term of UNSAFE_REPLACEMENTS as a whole   *)
(* word, case-insensitively.                                               *)
C1_NoUnsafeTermReturned ==
    \A c \in Returned : \A text \in SlideTexts(c.out.slides) :
        WholeWordOccurrences(UnsafeTerms, text) = {}

BeforeGuidance(st, slides) ==
    Resequence(_coerce_two_choice_branch(FixLoop(st, slides, 0, <<>>, <<>>).fixed_slides))

MentionsTrustedAdult(slides) ==
    \E text \in SlideTexts(slides) : AnyTermIn(TRUSTED_ADULT_TERMS, Lower(text))

(* C2: whenever the enabled critic returns, some returned slide text or    *)
(* choice text contains a trusted-adult term; and when none is present     *)
(* after sanitization and branch coercion, the trusted-adult sentence is   *)
(* appended to the last slide's text and the issue is recorded.            *)
C2_TrustedAdultGuaranteed ==
    \A c \in Returned :
        /\ MentionsTrustedAdult(c.out.slides)
        /\ \A before \in {BeforeGuidance(settings, c.in)} :
             ~MentionsTrustedAdult(before) =>
                /\ Len(c.out.slides) = Len(before)
                /\ c.out.slides[Len(before)].text = before[Len(before)].text \o TrustedAdultSentence
                /\ \A i \in 1..(Len(before) - 1) : c.out.slides[i] = before[i]
                /\ InSeq(GuidanceIssue, c.out.issues)

C2_Witness ==
    \E c \in Returned :
        /\ Len(c.out.slides) >= 2
        /\ InSeq(GuidanceIssue, c.out.issues)
        /\ ~MentionsTrustedAdult(c.in)

C4_SomeTwoChoiceBranch ==
    \A c \in Returned :
        /\ Len(c.out.slides) >= 1
        /\ \E i \in 1..Len(c.out.slides) :
            LET choices == c.out.slides[i].choices
            IN /\ IsList(choices)
               /\ Len(choices.items) = 2
               /\ {choices.items[1].correct, choices.items[2].correct} = {TRUE, FALSE}

(* the first slide with two choices came in with both flags equal *)
C4_Witness ==
    \E c \in Returned :
        /\ MultiChoiceInputs(c.in) # {}
        /\ LET i == SetMin(MultiChoiceInputs(c.in))
               items == c.in[i].choices.items
           IN /\ IsDict(items[1]) /\ IsDict(items[2])
              /\ Get(items[1], "correct", TRUE) = Get(items[2], "correct", FALSE)
              /\ ValidBranch(c.out.slides[i])

(* C5: in every slide list the pipeline produces (normalizer output passed *)
(* through the critic), each slide's choice list is null or has exactly    *)
(* two entries, exactly one of them correct.                               *)
C5_PipelineChoiceShape ==
    (pc = "pipeline_done" /\ settings.safety_critic_enabled /\ critic_out.status = "returned") =>
        \A i \in 1..Len(critic_out.slides) :
            critic_out.slides[i].choices = None \/ ValidBranch(critic_out.slides[i])

(* C6: when the enabled critic returns N slides, the slide at list index   *)
(* i (0-based) has position i+1, inserted default slide or not.            *)
C6_PositionsSequential ==
    \A c \in Returned : \A i \in 1..Len(c.out.slides) : c.out.slides[i].position = i

C6_Witness ==
    \E c \in Returned :
        /\ Len(c.in) >= 2
        /\ Len(c.out.slides) = Len(c.in) + 1
        /\ c.out.slides[2].text = DefaultBranchSlide.text

(* C7: every slide the enabled critic returns has non-empty text of length *)
(* at most safety_critic_max_text_length.                                  *)
C7_TextWithinMaxLength ==
    \A c \in Returned : \A i \in 1..Len(c.out.slides) :
        /\ c.out.slides[i].text # ""
        /\ Len(c.out.slides[i].text) <= settings.safety_critic_max_text_length

(* C8: run on a slide list it returned, the critic returns an equal slide  *)
(* list and an empty issue list.                                           *)
C8_Idempotent ==
    (rerun_out.status # "none") =>
        /\ rerun_out.status = "returned"
        /\ rerun_out.slides = critic_out.slides
        /\ rerun_out.issues = <<>>

SoftenedIssue(i) == "slide_" \o ToString(i) \o ": tone too intense, softened"

ScaryOccurrences(text) == Cardinality(WholeWordOccurrences(SCARY_TERMS, text))

(* C9: an input slide whose text, after term substitution, holds more      *)
(* whole-word, case-insensitive occurrences of scary terms than            *)
(* safety_critic_max_scary_terms_per_slide (repeats counted) comes back    *)
(* with the safe-reframing sentence and a "tone too intense" issue.        *)
C9_ScarySlideSoftened ==
    \A c \in Returned : \A i \in 1..Len(c.in) :
        LET text == IF AllSpace(c.in[i].text) THEN CalmActionText ELSE c.in[i].text
            shown == SubSeq(SafeReframeText, 1,
                            Min(Len(SafeReframeText), settings.safety_critic_max_text_length))
        IN ScaryOccurrences(_sanitize_text(text).text) > settings.safety_critic_max_scary_terms_per_slide =>
            /\ StartsWith(c.out.slides[OutIndex(c, i)].text, RStrip(shown))
            /\ InSeq(SoftenedIssue(i), c.out.issues)

FilledIssue(i) == "slide_" \o ToString(i) \o ": filled missing text"

(* the calm-action sentence as the later steps leave it: cut at the cap,   *)
(* and followed by the trusted-adult sentence on the last slide            *)
CalmTextShown ==
    LET max == settings.safety_critic_max_text_length
        capped == IF Len(CalmActionText) > max
                  THEN RStrip(SubSeq(CalmActionText, 1, max)) \o Ellipsis
                  ELSE CalmActionText
    IN {capped, capped \o TrustedAdultSentence}

(* C10: apply_safety_critic raises SafetyCriticError exactly when the      *)
(* critic is enabled and the slide list is empty or strict mode is on and  *)
(* some slide has blank text; with strict mode off a blank slide does not  *)
(* raise: it gets the calm-action sentence and a "filled missing text"     *)
(* issue.                                                                  *)
C10_RaisesExactlyWhen ==
    \A c \in Calls :
        /\ RaisedCriticError(c) <=>
             /\ settings.safety_critic_enabled
             /\ \/ c.in = <<>>
                \/ /\ settings.safety_critic_strict
                   /\ \E i \in 1..Len(c.in) : AllSpace(c.in[i].text)
        /\ (settings.safety_critic_enabled /\ ~settings.safety_critic_strict /\ c.in # <<>>) =>
             /\ c.out.status = "raised" => c.out.error # "SafetyCriticError"
             /\ c.out.status = "returned" =>
                  \A i \in 1..Len(c.in) : AllSpace(c.in[i].text) =>
                      /\ c.out.slides[OutIndex(c, i)].text \in CalmTextShown
                      /\ InSeq(FilledIssue(i), c.out.issues)

C10_Witness ==
    \E c \in Returned :
        /\ ~settings.safety_critic_strict
        /\ \E i \in 1..Len(c.in) :
              /\ AllSpace(c.in[i].text)
              /\ c.out.slides[OutIndex(c, i)].text = CalmActionText
              /\ InSeq(FilledIssue(i), c.out.issues)

(* C11: with safety_critic_enabled off, apply_safety_critic returns the    *)
(* slide list it was given, unchanged, with an empty issue list and no     *)
(* review verdict; it sends no review request and raises for no input, the *)
(* empty list included.                                                    *)
C11_DisabledPassThrough ==
    ~settings.safety_critic_enabled =>
        /\ \A c \in Calls :
            /\ c.out.status = "returned"
            /\ c.out.slides = c.in
            /\ c.out.issues = <<>>
            /\ c.out.llm_review = None
            /\ c.out.review_requests = 0
        /\ ~InSeq("review", ollama_calls)

(* the review flag is on, and the list is empty or out of sequence *)
C11_Witness ==
    /\ ~settings.safety_critic_enabled
    /\ settings.safety_critic_enable_llm_review
    /\ \E c \in Calls :
        /\ c.out.status = "returned"
        /\ \/ c.in = <<>>
           \/ Len(c.in) = 2 /\ c.in[2].position = 1

(* the review outcomes that are transport, timeout or parse failures *)
ReviewFailures == {"unreachable", "timeout", "body_not_json", "embedded_not_json"}

(* C12: with the critic and the review enabled, no outcome of the review   *)
(* request makes apply_safety_critic raise: the call returns with a        *)
(* verdict object, the fixed unavailable verdict on a transport, timeout   *)
(* or parse failure, and create_story does not end with a server error.    *)
C12_ReviewNeverPropagates ==
    (settings.safety_critic_enabled /\ settings.safety_critic_enable_llm_review) =>
        /\ \A c \in Calls :
            ~RaisedCriticError(c) =>
                /\ c.out.status = "returned"
                /\ IsDict(c.out.llm_review)
                /\ llm_endpoint \in ReviewFailures => c.out.llm_review = UnavailableVerdict
        /\ (pc = "responded" /\ critic_out.status # "none") =>
                story.detail \notin {"AttributeError", "TypeError"}

(* the review outcomes that end in a verdict: approved true, approved      *)
(* false, unavailable, invalid                                             *)
VerdictOutcomes == {"approved", "rejected", "embedded_not_object"} \cup ReviewFailures

(* the request as it stood when create_story called the critic *)
BeforeCritic == [story EXCEPT !.slides_to_store = critic_in, !.response = 0, !.detail = ""]

(* the slides held by the rows of the story_slides table *)
StoredSlides ==
    [i \in 1..Len(slide_rows) |->
        [position |-> slide_rows[i].position, text |-> slide_rows[i].text, choices |-> slide_rows[i].choices]]

(* C13: a create_story request whose review ended in a verdict goes on as  *)
(* it would with any other verdict: apply_safety_critic returns the same   *)
(* slides (or raises the same way) and the request continues with the same *)
(* slides to store or ends the same way; a 422 comes only from a           *)
(* SafetyCriticError; and the slide rows stored hold the slides the critic *)
(* returned.                                                               *)
C13_VerdictInformational ==
    (/\ settings.safety_critic_enabled
     /\ settings.safety_critic_enable_llm_review
     /\ llm_endpoint \in VerdictOutcomes
     /\ pc \in {"criticized", "responded"}
     /\ critic_out.status # "none") =>
        /\ story.response = 422 => critic_out.status = "raised" /\ critic_out.error = "SafetyCriticError"
        /\ story.response = 200 =>
            /\ StoredSlides = story.slides_to_store
            /\ critic_out.status = "returned" /\ StoredSlides = critic_out.slides
        /\ (pc = "criticized" \/ story.response = 422) =>
            \A other \in VerdictOutcomes :
                \A alt \in {apply_safety_critic(settings, critic_in, other)} :
                    \A next \in {OnCriticResult(settings, BeforeCritic, alt)} :
                        /\ alt.status = critic_out.status
                        /\ alt.status = "returned" => alt.slides = critic_out.slides
                        /\ next.story.slides_to_store = story.slides_to_store
                        /\ next.pc = pc
                        /\ next.story.response = story.response

(* a story stored although the reviewer did not approve it *)
C13_Witness ==
    /\ settings.safety_critic_enabled
    /\ settings.safety_critic_enable_llm_review
    /\ llm_endpoint = "rejected"
    /\ pc = "responded"
    /\ story.response = 200
    /\ critic_out.status = "returned"
    /\ critic_out.llm_review = ParsedVerdict(FALSE)
    /\ Len(slide_rows) >= 3
    /\ StoredSlides = critic_out.slides

----------------------------------------------------------------------------
(* vocabulary of the normalizer's properties *)

(* the raw slide list handed to the normalizer, <<>> when there is none *)
RawItems == IF IsList(Get(raw_in.raw, "slides", None)) THEN raw_in.raw.slides.items ELSE <<>>

(* a raw entry that is an object with non-blank text *)
RawTextOk(entry) ==
    /\ DOMAIN entry \cap JsonTags = {}
    /\ "text" \in DOMAIN entry
    /\ "str" \in DOMAIN entry.text
    /\ ~AllSpace(entry.text.str)

(* the places, among the first eight, of the entries that count *)
ValidPlaces == {i \in 1..Min(8, Len(RawItems)) : RawTextOk(RawItems[i])}

NormReturned == norm_out.status = "returned"

SequentialPositions(slides) == \A i \in 1..Len(slides) : slides[i].position = i

(* C14: the slides returned by _validate_and_normalize_slides have         *)
(* positions 1, 2, ..., N in list order, also when raw entries were        *)
(* dropped.                                                                *)
C14_NormalizedPositionsSequential == NormReturned => SequentialPositions(norm_out.slides)

(* C15: for a raw list of at least 3 entries, every one an object with     *)
(* non-blank text, _validate_and_normalize_slides returns slides with      *)
(* positions 1..N.                                                         *)
C15_AllValidSequential ==
    (/\ norm_out.status # "none"
     /\ Len(RawItems) >= 3
     /\ \A i \in 1..Len(RawItems) : RawTextOk(RawItems[i])) =>
        /\ NormReturned
        /\ SequentialPositions(norm_out.slides)

(* more than eight valid entries, none with choices: cut, then a slide inserted *)
C15_Witness ==
    /\ Len(RawItems) > 8
    /\ \A i \in 1..Len(RawItems) : RawTextOk(RawItems[i])
    /\ NormReturned
    /\ Len(norm_out.slides) = 8
    /\ norm_out.slides[2].text = NormalizerBranchSlide(raw_in.payload).text

WellFormedChoice(choice) ==
    /\ DOMAIN choice = {"id", "text", "correct"}
    /\ choice.text # ""
    /\ choice.correct \in BOOLEAN
    /\ choice.id # ""

(* C16: every slide returned by _validate_and_normalize_slides has a       *)
(* choice list that is null or holds exactly two well-formed choices.      *)
C16_NormalizedChoiceShape ==
    NormReturned =>
        \A i \in 1..Len(norm_out.slides) :
            \/ norm_out.slides[i].choices = None
            \/ /\ IsList(norm_out.slides[i].choices)
               /\ Len(norm_out.slides[i].choices.items) = 2
               /\ \A j \in 1..2 : WellFormedChoice(norm_out.slides[i].choices.items[j])

(* a choice list of exactly two entries, one of them marked correct *)
TwoChoiceBranch(slide) ==
    /\ IsList(slide.choices)
    /\ Len(slide.choices.items) = 2
    /\ \E j \in 1..2 : slide.choices.items[j].correct

(* C17: every successful result of _validate_and_normalize_slides holds    *)
(* at least one slide with a two-choice branch.                            *)
C17_NormalizedHasBranch ==
    NormReturned => \E i \in 1..Len(norm_out.slides) : TwoChoiceBranch(norm_out.slides[i])

(* the place of raw entry i among the entries that count *)
Rank(i) == Cardinality({j \in ValidPlaces : j <= i})

(* C18: when the N valid slides of an accepted raw list all have no        *)
(* choices, the result has N+1 slides: the synthesized two-choice slide    *)
(* at index 1, the N original slides in their order around it, positions   *)
(* 1..N+1.                                                                 *)
C18_BranchInsertedAll ==
    (/\ NormReturned
     /\ \A i \in ValidPlaces : Get(RawItems[i], "choices", None) = None) =>
        /\ Len(norm_out.slides) = Cardinality(ValidPlaces) + 1
        /\ SequentialPositions(norm_out.slides)
        /\ TwoChoiceBranch(norm_out.slides[2])
        /\ norm_out.slides[2].text = NormalizerBranchSlide(raw_in.payload).text
        /\ \A i \in ValidPlaces :
            \E slide \in {norm_out.slides[IF Rank(i) = 1 THEN 1 ELSE Rank(i) + 1]} :
                /\ slide.text = Strip(RawItems[i].text.str)
                /\ slide.choices = None

NoSlidesListMessage == "Model did not return valid slides list"
TooFewSlidesMessage == "Model returned too few valid slides"

(* C19: _validate_and_normalize_slides raises the generation error exactly *)
(* when the slides field is not a non-empty list or fewer than 3 of the    *)
(* first 8 raw entries are objects with non-blank text; otherwise it       *)
(* returns a slide list.                                                   *)
C19_RaisesExactlyWhen ==
    norm_out.status # "none" =>
        IF RawItems = <<>>
        THEN norm_out = GenerationError(NoSlidesListMessage)
        ELSE IF Cardinality(ValidPlaces) < 3
        THEN norm_out = GenerationError(TooFewSlidesMessage)
        ELSE NormReturned /\ Len(norm_out.slides) >= 3

(* three valid entries in all, but only two of them among the first eight *)
C19_Witness ==
    /\ Len(RawItems) > 8
    /\ Cardinality({i \in 1..Len(RawItems) : RawTextOk(RawItems[i])}) >= 3
    /\ Cardinality(ValidPlaces) = 2
    /\ norm_out = GenerationError(TooFewSlidesMessage)

----------------------------------------------------------------------------
(* vocabulary of the generation calls *)

CountCalls(calls, name) == Cardinality({k \in 1..Len(calls) : calls[k] = name})

GenerationCalls(calls) == CountCalls(calls, "planner") + CountCalls(calls, "generator")

(* create_story has handled a generation error *)
GenerationFailed == story # NoRequest /\ (story.slides_source = "default" \/ story.response = 502)

(* C20: in a create_story request the planner call is sent at most once    *)
(* and the generator call at most once; the generator call is sent only    *)
(* after the planner call returned an object; and once a generation error  *)
(* has been handled no generation call follows.                            *)
C20_SingleAttempt ==
    [][/\ CountCalls(ollama_calls', "planner") <= 1
       /\ CountCalls(ollama_calls', "generator") <= 1
       /\ CountCalls(ollama_calls', "generator") > CountCalls(ollama_calls, "generator") =>
            /\ ollama_calls = <<"planner">>
            /\ story.planner = "returned"
       /\ GenerationFailed => GenerationCalls(ollama_calls') = GenerationCalls(ollama_calls)]_vars

(* the generator call failed and the fallback story was stored *)
C20_Witness ==
    /\ ollama_calls = <<"planner", "generator">>
    /\ story.slides_source = "default"
    /\ story.response = 200
    /\ Len(slide_rows) = 3

----------------------------------------------------------------------------
(* vocabulary of the fallback properties *)

(* the story insert of the request succeeded *)
StoryInserted == story # NoRequest /\ stories # <<>>

(* the generation step of the request is over and produced no slides *)
GenerationRaised ==
    /\ StoryInserted
    /\ pc \notin {"generating", "planned"}
    /\ norm_out.status # "returned"

(* ... with a StoryGenerationError: any other exception ends the request   *)
(* with a server error before the critic is called                         *)
StoryGenerationFailed ==
    /\ GenerationRaised
    /\ ~(critic_out.status = "none" /\ story.response = 500)

(* the choices of the template's second slide: a correct, b incorrect *)
TemplateChoices(slide) ==
    /\ IsList(slide.choices)
    /\ Len(slide.choices.items) = 2
    /\ slide.choices.items[1].id = "a" /\ slide.choices.items[1].correct
    /\ slide.choices.items[2].id = "b" /\ ~slide.choices.items[2].correct

(* C21: when generation fails in create_story with a StoryGenerationError: *)
(* with ollama_fallback_to_default on, the critic is given the default     *)
(* template and the request succeeds (unless the slide insert itself       *)
(* fails), storing the critic's result on the template: three slides,      *)
(* positions 1, 2, 3, only slide 2 with choices, a correct and b           *)
(* incorrect; with the flag off the request ends with 502 and no slide row *)
(* is stored.                                                              *)
C21_FallbackOnGenerationFailure ==
    StoryGenerationFailed =>
        IF settings.ollama_fallback_to_default
        THEN /\ story.slides_source = "default"
             /\ critic_out.status # "none" => critic_in = build_default_branching_slides(story.payload)
             /\ pc = "responded" =>
                \/ story.response = 500 /\ story.detail = "APIError" /\ slide_rows = <<>>
                \/ /\ story.response = 200
                   /\ critic_out.status = "returned"
                   /\ StoredSlides = critic_out.slides
                   /\ Len(StoredSlides) = 3
                   /\ SequentialPositions(StoredSlides)
                   /\ StoredSlides[1].choices = None
                   /\ TemplateChoices(StoredSlides[2])
                   /\ StoredSlides[3].choices = None
        ELSE pc = "responded" /\ story.response = 502 /\ slide_rows = <<>>

----------------------------------------------------------------------------
(* vocabulary of the table properties *)

(* every row of old is still in new, at its place and as it was *)
RowsKept(old, new) == Len(new) >= Len(old) /\ \A k \in 1..Len(old) : new[k] = old[k]

HasStoryRow(rows, story_id) == \E k \in 1..Len(rows) : rows[k].id = story_id

SlideRowsOf(rows, story_id) == {k \in 1..Len(rows) : rows[k].story_id = story_id}

(* the request is between its story insert and its response *)
AfterStoryInsert == pc \in {"generating", "planned", "generated", "criticized"}

(* C22: in create_story the story row is in the table before a generation, *)
(* critic or image step runs and before a slide row is inserted; a request *)
(* that fails after the story insert leaves its story row stored, with no  *)
(* slide row; and no step removes or changes a stored story row.           *)
C22_StoryRowFirstAndKept ==
    [][/\ RowsKept(stories, stories')
       /\ AfterStoryInsert => HasStoryRow(stories, story.story_id)
       /\ slide_rows' # slide_rows => AfterStoryInsert
       /\ (AfterStoryInsert /\ pc' = "responded" /\ story'.response # 200) =>
            /\ HasStoryRow(stories', story.story_id)
            /\ SlideRowsOf(slide_rows', story.story_id) = {}]_vars

(* the slide insert failed: the story row is there, without slides *)
C22_Witness ==
    /\ pc = "responded"
    /\ story.response = 500
    /\ story.detail = "APIError"
    /\ HasStoryRow(stories, story.story_id)
    /\ SlideRowsOf(slide_rows, story.story_id) = {}

(* the request reached the image step *)
ImagesRun == story # NoRequest /\ story.images # "none"

----------------------------------------------------------------------------
(* C26: with the critic enabled, a call on N slides returns N+1 slides,    *)
(* the default two-choice slide at index 1, exactly when no input slide    *)
(* has two or more choices; otherwise it returns N slides, none inserted,  *)
(* and the first slide with two or more choices has its first two, exactly *)
(* one of them correct.                                                    *)
C26_InsertsExactlyWhenNoBranch ==
    \A c \in Returned :
        IF MultiChoiceInputs(c.in) = {}
        THEN /\ Len(c.out.slides) = Len(c.in) + 1
             /\ c.out.slides[2] = DefaultBranchSlide
        ELSE /\ Len(c.out.slides) = Len(c.in)
             /\ \A i \in 1..Len(c.out.slides) :
                    c.out.slides[i].text = DefaultBranchSlide.text =>
                        Strip(c.in[i].text) = DefaultBranchSlide.text
             /\ ValidBranch(c.out.slides[SetMin(MultiChoiceInputs(c.in))])

----------------------------------------------------------------------------
(* the critic has run in the create_story request *)
CriticRunInRequest == StoryInserted /\ critic_out.status # "none"

(* C27: with the critic enabled, create_story hands the critic at least 3  *)
(* slides, the critic does not raise SafetyCriticError there, so the       *)
(* request neither ends with 422 nor stores the template of the lenient    *)
(* branch: the slide rows inserted hold the slides apply_safety_critic     *)
(* returned for the request.                                               *)
C27_StoredSlidesFromCritic ==
    (settings.safety_critic_enabled /\ CriticRunInRequest) =>
        /\ Len(critic_in) >= 3
        /\ ~RaisedCriticError([in |-> critic_in, out |-> critic_out])
        /\ story.response # 422
        /\ pc = "criticized" => critic_out.status = "returned" /\ story.slides_to_store = critic_out.slides
        /\ slide_rows # <<>> => critic_out.status = "returned" /\ StoredSlides = critic_out.slides

(* strict mode: generated slides that the critic changed were stored *)
C27_Witness ==
    /\ settings.safety_critic_enabled
    /\ settings.safety_critic_strict
    /\ CriticRunInRequest
    /\ story.slides_source = "ollama"
    /\ story.response = 200
    /\ critic_out.slides # critic_in
    /\ StoredSlides = critic_out.slides

----------------------------------------------------------------------------
(* the text and the choices of a slide, as handed in or handed back *)
Content(slide) == [text |-> slide.text, choices |-> slide.choices]

(* C28: every change of the critic is recorded: when a call with the       *)
(* critic enabled returns an empty issue list, the returned slides are as  *)
(* many as the input slides and have their texts and choices.              *)
C28_EmptyIssuesMeansUnchanged ==
    \A c \in Returned :
        c.out.issues = <<>> =>
            /\ Len(c.out.slides) = Len(c.in)
            /\ \A i \in 1..Len(c.in) : Content(c.out.slides[i]) = Content(c.in[i])

----------------------------------------------------------------------------
(* the ids of a choice list are pairwise distinct *)
DistinctIds(choices) ==
    IsList(choices) =>
        \A j, k \in 1..Len(choices.items) : j # k => choices.items[j].id # choices.items[k].id

(* C29: in every choice list returned by _validate_and_normalize_slides    *)
(* and by apply_safety_critic (critic enabled) the choice ids are pairwise *)
(* distinct, also when own ids and default ids are mixed.                  *)
C29_ChoiceIdsDistinct ==
    /\ NormReturned => \A i \in 1..Len(norm_out.slides) : DistinctIds(norm_out.slides[i].choices)
    /\ \A c \in Returned : \A i \in 1..Len(c.out.slides) : DistinctIds(c.out.slides[i].choices)

----------------------------------------------------------------------------
(* every write of the log goes to an object the call made *)
OnlyFreshWritten(writes) == \A k \in 1..Len(writes) : writes[k].obj = FreshObj

(* the last step made a call of the critic, of the normalizer *)
CriticJustRan ==
    \/ pc \in {"critic_done", "pipeline_done", "rerun_done", "criticized"}
    \/ pc = "responded" /\ critic_out.status = "raised"

NormalizerJustRan ==
    /\ norm_out.status # "none"
    /\ \/ pc \in {"normalized", "generated"}
       \/ pc = "responded" /\ norm_out.status = "raised" /\ critic_out.status = "none"

----------------------------------------------------------------------------
(* publish_story and the status of the stories *)

(* this step is the start of a publish request *)
PublishRequestStarts == publish'.count = publish.count + 1

(* this step is the update of a publish request that the owner made *)
OwnerPublishes(row) ==
    /\ publish.pc = "update"
    /\ publish.role = "ngo"
    /\ publish.sub = row.ngo_id
    /\ publish.story_id = row.id
    /\ publish'.response = 200

(* C24: a story row is inserted with status draft; the status of a row     *)
(* changes only in the update of publish_story, only to published and only *)
(* for a token of role ngo whose subject is the row's ngo_id; when the     *)
(* select is answered, a request for an unknown story ends with 404 and a  *)
(* request of another NGO for a known story ends with 403, and both leave  *)
(* the stories table as it was; a published row is never draft again       *)
C24_StatusChangesOnlyByOwnerPublish ==
    [][/\ Len(stories') >= Len(stories)
       /\ \A k \in 1..Len(stories) :
            /\ stories'[k].status # stories[k].status =>
                    OwnerPublishes(stories[k]) /\ stories'[k].status = "published"
            /\ stories[k].status = "published" => stories'[k].status = "published"
            /\ stories'[k].ngo_id = stories[k].ngo_id
       /\ \A k \in (Len(stories) + 1)..Len(stories') : stories'[k].status = "draft"
       /\ (PublishRequestStarts /\ publish'.role = "ngo" /\ publish'.db = "answered") =>
            /\ StoriesWithId(publish'.story_id) = {} =>
                    publish'.response = 404 /\ stories' = stories
            /\ (\E k \in StoriesWithId(publish'.story_id) : stories[k].ngo_id # publish'.sub) =>
                    publish'.response = 403 /\ stories' = stories
      ]_vars

(* the owner published the story, then another NGO asked for it and got 403 *)
C24_Witness ==
    /\ Len(stories) = 1
    /\ stories[1].status = "published"
    /\ publish.count = 2
    /\ publish.pc = "done"
    /\ publish.role = "ngo"
    /\ publish.sub = OTHER_NGO_ID
    /\ publish.story_id = stories[1].id
    /\ publish.db = "answered"
    /\ publish.response = 403
    /\ publish.detail = "You can only publish your own stories"

----------------------------------------------------------------------------
(* ngo_signup and the rows of the ngo_accounts table *)

(* the email has an account row *)
Registered(email) == AccountsWithEmail(ngo_accounts, email) # {}

(* in this step request r ends, and no call of the database failed for a   *)
(* reason other than the email being taken                                 *)
SignupEnds(r) ==
    /\ signups[r].pc # "done"
    /\ signups'[r].pc = "done"
    /\ signups'[r].check_db = "answered"
    /\ signups'[r].insert_db \in {"", "inserted", "unique_violation"}

(* C30: at every moment at most one account row exists per email, and a    *)
(* signup that ends while its email has an account row ends with 409 and   *)
(* inserts nothing, also when two signups for one new email run side by    *)
(* side                                                                    *)
C30_OneAccountPerEmail ==
    /\ [](\A email \in SignupEmails : Cardinality(AccountsWithEmail(ngo_accounts, email)) <= 1)
    /\ [][\A r \in 1..MaxSignups :
            (SignupEnds(r) /\ Registered(signups'[r].email)) =>
                signups'[r].response = 409 /\ ngo_accounts' = ngo_accounts]_vars

====
